---- MODULE Spec2Model ----
(***************************************************************************)
(* Model of the /proc/stat parser of linux_proc (src/src/stat.rs):         *)
(* StatCpu::from_str, StatCpu::total, parse_single! and Stat::from_reader. *)
(* Lines are sequences of one-character strings.  The helpers of the       *)
(* `util` module (parse_token, parse_u64, consume_space, parse_dummy,      *)
(* LineParser) are not part of src/ and are modelled from spec.md 4.1/4.2. *)
(***************************************************************************)
EXTENDS Integers, Sequences, FiniteSets, TLC

\* ------------------------------------------------------------------ bounds
\* Width of the unsigned counters (u64 in the source, scaled down for TLC).
WordBits == 4
\* Largest number of per-CPU lines in a generated stream.
MaxCpus == 2
\* Largest number of reads of the stream that fail with an I/O error.
MaxIoErrors == 1
\* Largest number of numeric columns on a generated CPU line.
MaxFields == 11

U64Max == 2 ^ WordBits - 1

\* ------------------------------------------------------------------ text
SP == " "
TAB == "\t"
Digits == <<"0", "1", "2", "3", "4", "5", "6", "7", "8", "9">>
IsDigit(c) == \E i \in 1..10 : Digits[i] = c
DigitVal(c) == (CHOOSE i \in 1..10 : Digits[i] = c) - 1
IsSpace(c) == c = SP \/ c = TAB

S_cpu == <<"c", "p", "u">>
S_cpu0 == <<"c", "p", "u", "0">>
S_cpu1 == <<"c", "p", "u", "1">>
S_cpux == <<"c", "p", "u", "x">>
S_intr == <<"i", "n", "t", "r">>
S_ctxt == <<"c", "t", "x", "t">>
S_btime == <<"b", "t", "i", "m", "e">>
S_processes == <<"p", "r", "o", "c", "e", "s", "s", "e", "s">>
S_procs_running == <<"p", "r", "o", "c", "s", "_", "r", "u", "n", "n", "i", "n", "g">>
S_procs_blocked == <<"p", "r", "o", "c", "s", "_", "b", "l", "o", "c", "k", "e", "d">>
S_softirq == <<"s", "o", "f", "t", "i", "r", "q">>

\* Option<T>: <<>> is None, <<v>> is Some(v).
None == <<>>
Some(v) == <<v>>

\* Error (crate::Error built from a message); the label mismatch of
\* parse_single! carries the two labels it formats into its message.
Error(msg) == [msg |-> msg, expected |-> <<>>, actual |-> <<>>]
NoError == Error("")
\* Result<T, Error>
Ok(v) == [ok |-> TRUE, val |-> <<v>>, err |-> NoError]
Err(e) == [ok |-> FALSE, val |-> <<>>, err |-> e]

\* ------------------------------------------------------------------ util
\* Length of the longest prefix of s whose characters all satisfy P.
InClass(c, class) ==
    CASE class = "space" -> IsSpace(c)
      [] class = "digit" -> IsDigit(c)
      [] OTHER -> ~IsSpace(c)

RECURSIVE RunLen(_, _, _)
RunLen(s, i, class) ==
    IF i > Len(s) \/ ~InClass(s[i], class) THEN i - 1
    ELSE RunLen(s, i + 1, class)

Drop(s, n) == SubSeq(s, n + 1, Len(s))

\* util::consume_space: the input without its leading spaces and tabs.
consume_space(input) == Drop(input, RunLen(input, 1, "space"))

\* util::parse_token: skips whitespace, then reads the run of non-whitespace
\* characters; None when there is none.  Some(<<rest, token>>).
parse_token(input) ==
    LET s == consume_space(input)
        n == RunLen(s, 1, "token")
    IN  IF n = 0 THEN None ELSE Some(<<Drop(s, n), SubSeq(s, 1, n)>>)

RECURSIVE DigitsValue(_)
DigitsValue(ds) ==
    IF Len(ds) = 0 THEN 0
    ELSE 10 * DigitsValue(SubSeq(ds, 1, Len(ds) - 1)) + DigitVal(ds[Len(ds)])

\* util::parse_u64: skips whitespace, then reads the contiguous run of decimal
\* digits; None when the cursor is not at a digit or the value does not fit.
\* Some(<<rest, value>>).
parse_u64(input) ==
    LET s == consume_space(input)
        n == RunLen(s, 1, "digit")
        v == DigitsValue(SubSeq(s, 1, n))
    IN  IF n = 0 \/ v > U64Max THEN None ELSE Some(<<Drop(s, n), v>>)

\* util::parse_dummy: accepts any line.
parse_dummy(input) == Ok(0)

\* str::starts_with
starts_with(s, prefix) ==
    Len(s) >= Len(prefix) /\ SubSeq(s, 1, Len(prefix)) = prefix

\* ------------------------------------------------------------------ StatCpu
\* err_msg!($inner, $msg): $inner.ok_or_else(|| Error::from($msg))
err_msg_unnamed(inner, msg) ==
    IF inner = None THEN Err(Error("parse error")) ELSE Ok(inner[1])

err_msg(inner, msg) ==
    IF inner = None THEN Err(Error(msg)) ELSE Ok(inner[1])

\* The label test of from_str: cpunum.starts_with("cpu").
IsCpuLabel_any(cpunum) == TRUE

IsCpuLabel(cpunum) == starts_with(cpunum, S_cpu)

\* One optional field: match util::parse_u64(input) { Some((i, v)) => (i,
\* Some(v)), None => (input, None) }.  <<rest, option>>.
ReadOptional_zeroNone(input) ==
    LET r == parse_u64(input)
    IN  IF r = None THEN <<input, None>>
        ELSE IF r[1][2] = 0 THEN <<r[1][1], None>>
        ELSE <<r[1][1], Some(r[1][2])>>

ReadOptional_advance(input) ==
    LET r == parse_u64(input)
        t == parse_token(input)
    IN  IF r = None
        THEN <<IF t = None THEN input ELSE t[1][1], None>>
        ELSE <<r[1][1], Some(r[1][2])>>

ReadOptional(input) ==
    LET r == parse_u64(input)
    IN  IF r = None THEN <<input, None>> ELSE <<r[1][1], Some(r[1][2])>>

\* The struct literal that ends from_str.
StatCpu(user, nice, system, idle, iowait, irq, softirq, steal, guest, guest_nice) ==
    [user |-> user, nice |-> nice, system |-> system, idle |-> idle,
     iowait |-> iowait, irq |-> irq, softirq |-> softirq,
     steal |-> steal, guest |-> guest, guest_nice |-> guest_nice]

\* The optional part and the result of from_str, after the seven mandatory
\* fields m have been read and the cursor is at input.
FromStrOptional(input, m) ==
    LET o1 == ReadOptional(input)
        o2 == ReadOptional(o1[1])
        o3 == ReadOptional(o2[1])
    IN  Ok(StatCpu(m[1], m[2], m[3], m[4], m[5], m[6], m[7], o1[2], o2[2], o3[2]))

MandatoryNames == <<"user", "nice", "system", "idle", "iowait", "irq", "softirq">>

\* from_str once the mandatory fields have been read.
FromStrMandatory(m) ==
    IF ~m.ok THEN Err(m.err) ELSE FromStrOptional(m.val[1][1], m.val[1][2])

\* The seven mandatory reads of from_str, from the k-th on:
\* let (input, <field>) = err_msg!(util::parse_u64(input), "<field>")?;
\* Ok(<<rest, values>>), or the error naming the first field not read.
RECURSIVE ReadMandatory(_, _, _)
ReadMandatory(input, k, acc) ==
    IF k > 7 THEN Ok(<<input, acc>>)
    ELSE LET r == err_msg(parse_u64(input), MandatoryNames[k])
         IN  IF ~r.ok THEN Err(r.err)
             ELSE ReadMandatory(r.val[1][1], k + 1, Append(acc, r.val[1][2]))

\* from_str once the first token has been read.
FromStrFields(t) ==
    IF ~t.ok THEN Err(t.err)
    ELSE IF ~IsCpuLabel(t.val[1][2]) THEN Err(Error("starts with cpu<x>"))
    ELSE FromStrMandatory(ReadMandatory(t.val[1][1], 1, <<>>))

\* StatCpu::from_str
StatCpu_from_str(input) ==
    FromStrFields(err_msg(parse_token(input), "first token"))

\* u64::checked_add followed by unwrap: None stands for the panic.
checked_add(a, b) ==
    IF a = None THEN None
    ELSE IF a[1] + b > U64Max THEN None ELSE Some(a[1] + b)

unwrap_or(o, d) == IF o = None THEN d ELSE o[1]

\* StatCpu::total with wrapping additions.
total_wrapping(self) ==
    Some((self.user + self.nice + self.system + self.idle + self.iowait
          + self.irq + self.softirq + unwrap_or(self.steal, 0)
          + unwrap_or(self.guest, 0) + unwrap_or(self.guest_nice, 0))
         % (U64Max + 1))

\* StatCpu::total: Some(sum), or None when an unwrap panics.
total(self) ==
    checked_add(checked_add(checked_add(checked_add(checked_add(checked_add(
    checked_add(checked_add(checked_add(
        Some(self.user), self.nice), self.system), self.idle), self.iowait),
        self.irq), self.softirq), unwrap_or(self.steal, 0)),
        unwrap_or(self.guest, 0)), unwrap_or(self.guest_nice, 0))


\* parse_single!($name): the parser of one `<name> <u64>` line.
parse_single_noTrailingCheck(name, input) ==
    LET t == parse_token(input) IN
    IF t = None THEN Err(Error("cannot read name")) ELSE
    IF t[1][2] # name
    THEN Err([msg |-> "incorrect name", expected |-> name, actual |-> t[1][2]])
    ELSE
    LET v == parse_u64(t[1][1]) IN
    IF v = None THEN Err(Error("cannot read value")) ELSE Ok(v[1][2])

parse_single(name, input) ==
    LET t == parse_token(input) IN
    IF t = None THEN Err(Error("cannot read name")) ELSE
    IF t[1][2] # name
    THEN Err([msg |-> "incorrect name", expected |-> name, actual |-> t[1][2]])
    ELSE
    LET v == parse_u64(t[1][1]) IN
    IF v = None THEN Err(Error("cannot read value")) ELSE
    IF Len(consume_space(v[1][1])) # 0 THEN Err(Error("trailing content"))
    ELSE Ok(v[1][2])

\* ------------------------------------------------------------------ input
\* A line as the kernel prints it: a label, numeric columns each preceded by
\* the separator, and raw trailing text.
D(label, nums, sep, tail) == [label |-> label, nums |-> nums, sep |-> sep, tail |-> tail]

RECURSIVE ToDigits(_)
ToDigits(n) ==
    IF n < 10 THEN <<Digits[n + 1]>>
    ELSE ToDigits(n \div 10) \o <<Digits[(n % 10) + 1]>>

RECURSIVE RenderNums(_, _)
RenderNums(nums, sep) ==
    IF Len(nums) = 0 THEN <<>>
    ELSE sep \o ToDigits(Head(nums)) \o RenderNums(Tail(nums), sep)

Render(d) == d.label \o RenderNums(d.nums, d.sep) \o d.tail

VARIABLES
    input,              \* the stream: the sequence of its lines (text)
    shape,              \* the line descriptions the stream was printed from
    pos,                \* LineParser: number of lines taken from the stream
    buffer,             \* LineParser: the line kept after a failed parse
    ioLeft,             \* reads of the stream that may still fail
    pc,                 \* position in from_reader / the function under test
    cpu_totals, cpus, context_switches, boot_time, processes,
    procs_running, procs_blocked,       \* the locals of from_reader
    ret,                \* the value from_reader returns
    applied,            \* per step, the index of the line its parser last saw
    loopFail,           \* index of the line that ended the per-CPU loop
    ioFailed,           \* set of steps during which a read failed
    eofAt,              \* set of steps whose read found the stream exhausted
    parsed,             \* result of StatCpu::from_str (function check)
    self,               \* the StatCpu total() is called on
    sum                 \* result of total()

vars == <<input, shape, pos, buffer, ioLeft, pc, cpu_totals, cpus,
          context_switches, boot_time, processes, procs_running,
          procs_blocked, ret, applied, loopFail, ioFailed, eofAt,
          parsed, self, sum>>

\* ------------------------------------------------------------------ reader
\* std::io::Error as parse_line returns it.
IoErr(kind, e) == [kind |-> kind, error |-> e]

\* The parsers from_reader hands to parse_line.
P_cpu == [kind |-> "cpu", name |-> <<>>]
P_dummy == [kind |-> "dummy", name |-> <<>>]
P_single(name) == [kind |-> "single", name |-> name]

Apply(parser, line) ==
    CASE parser.kind = "cpu" -> StatCpu_from_str(line)
      [] parser.kind = "dummy" -> parse_dummy(line)
      [] OTHER -> parse_single(parser.name, line)

\* parse_line once the line is at hand: a parsed line is consumed, a line
\* whose parser fails stays in the buffer for the next call.
Parsed(idx, line, r) ==
    IF r.ok
    THEN [res |-> [ok |-> TRUE, val |-> r.val, err |-> IoErr("", NoError)],
          rd |-> [pos |-> idx, buffer |-> None], line |-> idx, eof |-> FALSE]
    ELSE [res |-> [ok |-> FALSE, val |-> <<>>, err |-> IoErr("InvalidData", r.err)],
          rd |-> [pos |-> idx, buffer |-> Some(line)], line |-> idx, eof |-> FALSE]

ParseAt(idx, line, parser) == Parsed(idx, line, Apply(parser, line))

\* util::LineParser::parse_line.  rd is the reader, fail says whether the
\* read of the stream it makes fails.
parse_line(rd, stream, fail, parser) ==
    IF rd.buffer # None THEN ParseAt(rd.pos, rd.buffer[1], parser)
    ELSE IF fail
    THEN [res |-> [ok |-> FALSE, val |-> <<>>, err |-> IoErr("Other", NoError)],
          rd |-> rd, line |-> 0, eof |-> FALSE]
    ELSE IF rd.pos >= Len(stream)
    THEN [res |-> [ok |-> FALSE, val |-> <<>>,
                   err |-> IoErr("UnexpectedEof", NoError)],
          rd |-> rd, line |-> 0, eof |-> TRUE]
    ELSE ParseAt(rd.pos + 1, stream[rd.pos + 1], parser)

Reader == [pos |-> pos, buffer |-> buffer]

\* Whether the next read of the stream may fail.
FailChoices == {f \in BOOLEAN : f => (ioLeft > 0 /\ buffer = None)}

\* The reader and the bookkeeping after one parse_line call of `step`.
Advance(step, o, fail) ==
    /\ pos' = o.rd.pos
    /\ buffer' = o.rd.buffer
    /\ ioLeft' = IF fail THEN ioLeft - 1 ELSE ioLeft
    /\ applied' = IF o.line = 0 THEN applied ELSE [applied EXCEPT ![step] = o.line]
    /\ ioFailed' = IF fail THEN ioFailed \cup {step} ELSE ioFailed
    /\ eofAt' = IF o.eof THEN eofAt \cup {step} ELSE eofAt

\* `?`: the error leaves from_reader.
Return(e) ==
    /\ pc' = "done"
    /\ ret' = [status |-> "err", err |-> e, stat |-> <<>>]


\* ------------------------------------------------------------------ from_reader
Steps == {"totals", "cpus", "dummy", "ctxt", "btime", "processes",
          "procs_running", "procs_blocked"}

FnVars == <<input, shape, parsed, self, sum>>

\* let cpu_totals = reader.parse_line(StatCpu::from_str)?;
ParseTotals ==
    /\ pc = "totals"
    /\ \E fail \in FailChoices :
         \E o \in {parse_line(Reader, input, fail, P_cpu)} :
         /\ Advance("totals", o, fail)
         /\ IF o.res.ok
            THEN cpu_totals' = Some(o.res.val[1]) /\ pc' = "cpus" /\ ret' = ret
            ELSE cpu_totals' = cpu_totals /\ Return(o.res.err)
    /\ UNCHANGED <<cpus, context_switches, boot_time, processes,
                   procs_running, procs_blocked, loopFail, FnVars>>

\* One iteration of the per-CPU loop, with the new entry put first.
ParseCpuLoop_prepend ==
    /\ pc = "cpus"
    /\ \E fail \in FailChoices :
         \E o \in {parse_line(Reader, input, fail, P_cpu)} :
         /\ Advance("cpus", o, fail)
         /\ IF o.res.ok
            THEN cpus' = <<o.res.val[1]>> \o cpus /\ pc' = "cpus"
                 /\ loopFail' = loopFail
            ELSE cpus' = cpus /\ pc' = "dummy" /\ loopFail' = o.line
    /\ UNCHANGED <<cpu_totals, context_switches, boot_time, processes,
                   procs_running, procs_blocked, ret, FnVars>>

\* One iteration of: loop { if let Ok(cpu_info) = reader.parse_line(
\* StatCpu::from_str) { cpus.push(cpu_info); } else { break; } }
ParseCpuLoop ==
    /\ pc = "cpus"
    /\ \E fail \in FailChoices :
         \E o \in {parse_line(Reader, input, fail, P_cpu)} :
         /\ Advance("cpus", o, fail)
         /\ IF o.res.ok
            THEN cpus' = Append(cpus, o.res.val[1]) /\ pc' = "cpus"
                 /\ loopFail' = loopFail
            ELSE cpus' = cpus /\ pc' = "dummy" /\ loopFail' = o.line
    /\ UNCHANGED <<cpu_totals, context_switches, boot_time, processes,
                   procs_running, procs_blocked, ret, FnVars>>

\* from_reader without its ignored-line step.
ParseDummy_skipped ==
    /\ pc = "dummy"
    /\ pc' = "ctxt"
    /\ UNCHANGED <<pos, buffer, ioLeft, applied, ioFailed, eofAt, ret,
                   cpu_totals, cpus, context_switches, boot_time, processes,
                   procs_running, procs_blocked, loopFail, FnVars>>

\* reader.parse_line(util::parse_dummy)?;
ParseDummy ==
    /\ pc = "dummy"
    /\ \E fail \in FailChoices :
         \E o \in {parse_line(Reader, input, fail, P_dummy)} :
         /\ Advance("dummy", o, fail)
         /\ IF o.res.ok
            THEN pc' = "ctxt" /\ ret' = ret
            ELSE Return(o.res.err)
    /\ UNCHANGED <<cpu_totals, cpus, context_switches, boot_time, processes,
                   procs_running, procs_blocked, loopFail, FnVars>>

\* let context_switches = reader.parse_line(parse_single!("ctxt"))?;
ParseCtxt ==
    /\ pc = "ctxt"
    /\ \E fail \in FailChoices :
         \E o \in {parse_line(Reader, input, fail, P_single(S_ctxt))} :
         /\ Advance("ctxt", o, fail)
         /\ IF o.res.ok
            THEN context_switches' = Some(o.res.val[1]) /\ pc' = "btime"
                 /\ ret' = ret
            ELSE context_switches' = context_switches /\ Return(o.res.err)
    /\ UNCHANGED <<cpu_totals, cpus, boot_time, processes,
                   procs_running, procs_blocked, loopFail, FnVars>>

\* let boot_time = reader.parse_line(parse_single!("btime"))?;
ParseBtime ==
    /\ pc = "btime"
    /\ \E fail \in FailChoices :
         \E o \in {parse_line(Reader, input, fail, P_single(S_btime))} :
         /\ Advance("btime", o, fail)
         /\ IF o.res.ok
            THEN boot_time' = Some(o.res.val[1]) /\ pc' = "processes"
                 /\ ret' = ret
            ELSE boot_time' = boot_time /\ Return(o.res.err)
    /\ UNCHANGED <<cpu_totals, cpus, context_switches, processes,
                   procs_running, procs_blocked, loopFail, FnVars>>

\* let processes = reader.parse_line(parse_single!("processes"))?;
ParseProcesses ==
    /\ pc = "processes"
    /\ \E fail \in FailChoices :
         \E o \in {parse_line(Reader, input, fail, P_single(S_processes))} :
         /\ Advance("processes", o, fail)
         /\ IF o.res.ok
            THEN processes' = Some(o.res.val[1]) /\ pc' = "procs_running"
                 /\ ret' = ret
            ELSE processes' = processes /\ Return(o.res.err)
    /\ UNCHANGED <<cpu_totals, cpus, context_switches, boot_time,
                   procs_running, procs_blocked, loopFail, FnVars>>

\* let procs_running = reader.parse_line(parse_single!("procs_running"))?;
ParseProcsRunning ==
    /\ pc = "procs_running"
    /\ \E fail \in FailChoices :
         \E o \in {parse_line(Reader, input, fail, P_single(S_procs_running))} :
         /\ Advance("procs_running", o, fail)
         /\ IF o.res.ok
            THEN procs_running' = Some(o.res.val[1]) /\ pc' = "procs_blocked"
                 /\ ret' = ret
            ELSE procs_running' = procs_running /\ Return(o.res.err)
    /\ UNCHANGED <<cpu_totals, cpus, context_switches, boot_time, processes,
                   procs_blocked, loopFail, FnVars>>

\* Ok(Stat { cpu_totals, cpus, context_switches, boot_time, processes,
\* procs_running, procs_blocked })
Stat(blocked) ==
    [cpu_totals |-> cpu_totals[1], cpus |-> cpus,
     context_switches |-> context_switches[1], boot_time |-> boot_time[1],
     processes |-> processes[1], procs_running |-> procs_running[1],
     procs_blocked |-> blocked]

\* The last line read with a default in place of `?`.
ParseProcsBlocked_default ==
    /\ pc = "procs_blocked"
    /\ \E fail \in FailChoices :
         \E o \in {parse_line(Reader, input, fail, P_single(S_procs_blocked))} :
         \E v \in {IF o.res.ok THEN o.res.val[1] ELSE 0} :
         /\ Advance("procs_blocked", o, fail)
         /\ procs_blocked' = Some(v)
         /\ pc' = "done"
         /\ ret' = [status |-> "ok", err |-> IoErr("", NoError),
                    stat |-> <<Stat(v)>>]
    /\ UNCHANGED <<cpu_totals, cpus, context_switches, boot_time, processes,
                   procs_running, loopFail, FnVars>>

\* let procs_blocked = reader.parse_line(parse_single!("procs_blocked"))?;
\* and the Ok(Stat { .. }) that ends from_reader.
ParseProcsBlocked ==
    /\ pc = "procs_blocked"
    /\ \E fail \in FailChoices :
         \E o \in {parse_line(Reader, input, fail, P_single(S_procs_blocked))} :
         /\ Advance("procs_blocked", o, fail)
         /\ IF o.res.ok
            THEN /\ procs_blocked' = Some(o.res.val[1])
                 /\ pc' = "done"
                 /\ ret' = [status |-> "ok", err |-> IoErr("", NoError),
                            stat |-> <<Stat(o.res.val[1])>>]
            ELSE procs_blocked' = procs_blocked /\ Return(o.res.err)
    /\ UNCHANGED <<cpu_totals, cpus, context_switches, boot_time, processes,
                   procs_running, loopFail, FnVars>>

\* ------------------------------------------------------------------ streams
Seven == <<1, 2, 3, 4, 5, 6, 7>>

\* First lines on which from_reader goes on to the per-CPU loop.
AggOk ==
    {D(S_cpu, Seven, <<SP>>, <<>>),
     D(S_cpu, <<9, 2, 6, 8, 1, 5, 3, 0, 0, U64Max>>, <<SP, SP>>, <<SP>>),
     D(S_cpu0, Seven, <<SP>>, <<>>)}

\* First lines StatCpu::from_str rejects.
AggBad ==
    {D(S_intr, Seven, <<SP>>, <<>>),
     D(S_cpu, <<>>, <<SP>>, <<>>),
     D(S_cpu, <<1, 2, 3>>, <<SP>>, <<>>),
     D(S_cpu, <<1, 2, 3, 4, 5, 6>>, <<SP>>, <<>>),
     D(<<>>, <<>>, <<SP>>, <<>>)}

\* Lines of the per-CPU block; the last is short of its mandatory columns.
CpuLines ==
    {D(S_cpu0, <<4, 0, 1, 2, 8, 2, 5, 0>>, <<SP>>, <<>>),
     D(S_cpu1, <<3, 0, 1, 2, 3, 9, 3, 0, 0, 0>>, <<SP>>, <<>>),
     D(S_cpu1, <<1, 2>>, <<SP>>, <<>>)}

Blocks == UNION {[1..n -> CpuLines] : n \in 0..MaxCpus}

\* The line after the block: an intr line, an empty line, a line that has
\* the shape of a CPU line, a CPU line short of its mandatory columns.
IntrLine == D(S_intr, <<5, 6>>, <<SP>>, <<>>)
Ignored ==
    {IntrLine,
     D(<<>>, <<>>, <<SP>>, <<>>),
     D(S_cpux, <<1, 1, 1, 1, 1, 1, 1>>, <<SP>>, <<>>),
     D(S_cpu1, <<1, 2>>, <<SP>>, <<>>)}

SingleNames == <<S_ctxt, S_btime, S_processes, S_procs_running, S_procs_blocked>>
SingleSteps == <<"ctxt", "btime", "processes", "procs_running", "procs_blocked">>

Valid5 ==
    <<D(S_ctxt, <<3>>, <<SP>>, <<>>),
      D(S_btime, <<U64Max>>, <<SP>>, <<>>),
      D(S_processes, <<5>>, <<SP>>, <<>>),
      D(S_procs_running, <<1>>, <<SP>>, <<>>),
      D(S_procs_blocked, <<0>>, <<SP>>, <<>>)>>

Kinds == {"ws", "trailing", "glued", "second", "novalue", "label", "empty"}

Deviate(d, k) ==
    CASE k = "ws" -> [d EXCEPT !.tail = <<SP, TAB>>]
      [] k = "trailing" -> [d EXCEPT !.tail = <<SP, "x">>]
      [] k = "glued" -> [d EXCEPT !.tail = <<"x">>]
      [] k = "second" -> [d EXCEPT !.nums = d.nums \o <<2>>]
      [] k = "novalue" -> [d EXCEPT !.nums = <<>>]
      [] k = "label" -> [d EXCEPT !.label = S_softirq]
      [] OTHER -> D(<<>>, <<>>, <<SP>>, <<>>)

Swapped == <<Valid5[2], Valid5[1], Valid5[3], Valid5[4], Valid5[5]>>

Tails ==
    {Valid5, Swapped}
    \cup {[Valid5 EXCEPT ![i] = Deviate(Valid5[i], k)] : i \in 1..5, k \in Kinds}

SoftirqLine == D(S_softirq, <<4, 2>>, <<SP>>, <<>>)

Rests ==
    {<<ig>> \o Valid5 \o tr : ig \in Ignored, tr \in {<<>>, <<SoftirqLine>>}}
    \cup {<<IntrLine>> \o t : t \in Tails}

Full == {<<a>> \o b \o r : a \in AggOk, b \in Blocks, r \in Rests}

Prefixes(f) == {SubSeq(f, 1, k) : k \in 0..Len(f)}

Truncated ==
    UNION {Prefixes(<<a>> \o b \o <<IntrLine>> \o Valid5) :
              a \in AggOk, b \in Blocks}

Streams ==
    Full \cup Truncated \cup {<<a, IntrLine>> \o Valid5 : a \in AggBad}

NoCpu == StatCpu(0, 0, 0, 0, 0, 0, 0, None, None, None)

Init ==
    /\ shape \in Streams
    /\ input = [i \in 1..Len(shape) |-> Render(shape[i])]
    /\ pos = 0
    /\ buffer = None
    /\ ioLeft = MaxIoErrors
    /\ pc = "totals"
    /\ cpu_totals = None
    /\ cpus = <<>>
    /\ context_switches = None
    /\ boot_time = None
    /\ processes = None
    /\ procs_running = None
    /\ procs_blocked = None
    /\ ret = [status |-> "running", err |-> IoErr("", NoError), stat |-> <<>>]
    /\ applied = [s \in Steps |-> 0]
    /\ loopFail = 0
    /\ ioFailed = {}
    /\ eofAt = {}
    /\ parsed = Err(NoError)
    /\ self = NoCpu
    /\ sum = None

Next ==
    \/ ParseTotals
    \/ ParseCpuLoop
    \/ ParseDummy
    \/ ParseCtxt
    \/ ParseBtime
    \/ ParseProcesses
    \/ ParseProcsRunning
    \/ ParseProcsBlocked

Spec == Init /\ [][Next]_vars


\* ------------------------------------------------------------------ function checks
\* StatCpu::from_str applied to one line.
NumVals == {0, U64Max}
NumSeqs == UNION {[1..n -> NumVals] : n \in 0..MaxFields}

LineShapes ==
    {D(l, ns, sp, tl) :
        l \in {S_cpu, S_cpu0, S_cpux, S_intr, <<>>},
        ns \in NumSeqs,
        sp \in {<<SP>>, <<SP, TAB>>},
        tl \in {<<>>, <<SP>>, <<SP, "x", SP, "5">>}}

InitCpu ==
    /\ shape \in {<<d>> : d \in LineShapes}
    /\ input = <<Render(shape[1])>>
    /\ pc = "from_str"
    /\ pos = 0
    /\ buffer = None
    /\ ioLeft = 0
    /\ cpu_totals = None
    /\ cpus = <<>>
    /\ context_switches = None
    /\ boot_time = None
    /\ processes = None
    /\ procs_running = None
    /\ procs_blocked = None
    /\ ret = [status |-> "running", err |-> IoErr("", NoError), stat |-> <<>>]
    /\ applied = [s \in Steps |-> 0]
    /\ loopFail = 0
    /\ ioFailed = {}
    /\ eofAt = {}
    /\ parsed = Err(NoError)
    /\ self = NoCpu
    /\ sum = None

FromStr ==
    /\ pc = "from_str"
    /\ parsed' = StatCpu_from_str(input[1])
    /\ pc' = "done"
    /\ UNCHANGED <<input, shape, pos, buffer, ioLeft, cpu_totals, cpus,
                   context_switches, boot_time, processes, procs_running,
                   procs_blocked, ret, applied, loopFail, ioFailed, eofAt,
                   self, sum>>

NextCpu == FromStr

SpecCpu == InitCpu /\ [][NextCpu]_vars

\* StatCpu::total applied to one StatCpu.
Half == (U64Max + 1) \div 2
CounterVals == {0, 1, Half}
OptionVals == {None, Some(0), Some(1), Some(U64Max)}

InitTotal ==
    /\ self \in [user : CounterVals, nice : CounterVals, system : CounterVals,
                 idle : CounterVals, iowait : CounterVals, irq : CounterVals,
                 softirq : CounterVals, steal : OptionVals, guest : OptionVals,
                 guest_nice : OptionVals]
    /\ pc = "total"
    /\ shape = <<>>
    /\ input = <<>>
    /\ pos = 0
    /\ buffer = None
    /\ ioLeft = 0
    /\ cpu_totals = None
    /\ cpus = <<>>
    /\ context_switches = None
    /\ boot_time = None
    /\ processes = None
    /\ procs_running = None
    /\ procs_blocked = None
    /\ ret = [status |-> "running", err |-> IoErr("", NoError), stat |-> <<>>]
    /\ applied = [s \in Steps |-> 0]
    /\ loopFail = 0
    /\ ioFailed = {}
    /\ eofAt = {}
    /\ parsed = Err(NoError)
    /\ sum = None

Total ==
    /\ pc = "total"
    /\ sum' = total(self)
    /\ pc' = "done"
    /\ UNCHANGED <<input, shape, pos, buffer, ioLeft, cpu_totals, cpus,
                   context_switches, boot_time, processes, procs_running,
                   procs_blocked, ret, applied, loopFail, ioFailed, eofAt,
                   parsed, self>>

NextTotal == Total

SpecTotal == InitTotal /\ [][NextTotal]_vars


\* ------------------------------------------------------------------ grammar
\* The line grammar of the input, stated on the line descriptions.
WsOnly(t) == \A i \in 1..Len(t) : IsSpace(t[i])

AllDigits(t) == Len(t) > 0 /\ \A i \in 1..Len(t) : IsDigit(t[i])

GAggregate(d) ==
    d.label = S_cpu /\ Len(d.nums) \in 7..10 /\ WsOnly(d.tail)

GPerCpu(d) ==
    /\ starts_with(d.label, S_cpu)
    /\ AllDigits(Drop(d.label, 3))
    /\ Len(d.nums) \in 7..10
    /\ WsOnly(d.tail)

GSingle(d, name) ==
    d.label = name /\ Len(d.nums) = 1 /\ WsOnly(d.tail)

\* s is a stream of the grammar with n per-CPU lines.
Conforms(s, n) ==
    /\ Len(s) >= n + 7
    /\ GAggregate(s[1])
    /\ \A i \in 1..n : GPerCpu(s[i + 1])
    /\ \A j \in 1..5 : GSingle(s[n + 2 + j], SingleNames[j])

Opt(nums, i) == IF Len(nums) >= i THEN Some(nums[i]) ELSE None

\* The counters a CPU line with at least seven columns was printed from.
Expected(d) ==
    StatCpu(d.nums[1], d.nums[2], d.nums[3], d.nums[4], d.nums[5], d.nums[6],
            d.nums[7], Opt(d.nums, 8), Opt(d.nums, 9), Opt(d.nums, 10))

\* A line the CPU-line parser accepts: a cpu-prefixed first token followed
\* by at least seven unsigned integers.
CpuShaped(d) == starts_with(d.label, S_cpu) /\ Len(d.nums) >= 7

\* A cpu-labelled line with fewer than seven unsigned integers.
ShortCpu(d) == starts_with(d.label, S_cpu) /\ Len(d.nums) < 7

\* ------------------------------------------------------------------ claims
\* C1 as stated: on every stream of the grammar with n per-CPU lines that is
\* read without an I/O error, from_reader succeeds and cpus holds exactly
\* the counters of those n lines, in order.
C1_Original ==
    (pc = "done" /\ ioFailed = {}) =>
        \A n \in 0..Len(shape) :
            Conforms(shape, n) =>
                /\ ret.status = "ok"
                /\ Len(ret.stat[1].cpus) = n
                /\ \A i \in 1..n : ret.stat[1].cpus[i] = Expected(shape[i + 1])

\* C1 amended: the same, for the streams of the grammar whose ignored line
\* is not itself accepted by the CPU-line parser.
C1_ConformingStreamParses ==
    (pc = "done" /\ ioFailed = {}) =>
        \A n \in 0..Len(shape) :
            (Conforms(shape, n) /\ ~CpuShaped(shape[n + 2])) =>
                /\ ret.status = "ok"
                /\ Len(ret.stat[1].cpus) = n
                /\ \A i \in 1..n : ret.stat[1].cpus[i] = Expected(shape[i + 1])

C1_Witness ==
    /\ pc = "done"
    /\ ioFailed = {}
    /\ Conforms(shape, 2)
    /\ ~CpuShaped(shape[4])
    /\ ret.status = "ok"
    /\ Len(ret.stat[1].cpus) = 2
    /\ ret.stat[1].cpus[1] # ret.stat[1].cpus[2]

\* C2: the per-CPU loop consumes only the lines it parses as CPU lines; the
\* line that ends the loop is the one line the ignored-line step consumes,
\* and the ctxt parser sees the line right after it.
C2_LoopDelegatesFailedLine ==
    /\ loopFail # 0 => loopFail = Len(cpus) + 2
    /\ \A i \in 1..Len(cpus) : CpuShaped(shape[i + 1])
    /\ (loopFail # 0 /\ applied["dummy"] # 0) => applied["dummy"] = loopFail
    /\ applied["ctxt"] # 0 =>
          /\ applied["dummy"] # 0
          /\ applied["ctxt"] = applied["dummy"] + 1

C2_Witness ==
    /\ pc = "done"
    /\ ret.status = "ok"
    /\ Len(cpus) = 2
    /\ loopFail = 4
    /\ applied["dummy"] = 4
    /\ applied["ctxt"] = 5

\* C3: each of the five single-value lines must be its label, one unsigned
\* integer and nothing but whitespace, in the order ctxt, btime, processes,
\* procs_running, procs_blocked; any other line there makes from_reader
\* return an error and no record, and a label mismatch is reported with the
\* expected and the actual label.
C3_SingleValueLines ==
    /\ \A j \in 1..5 :
         LET k == applied[SingleSteps[j]]
             d == shape[k]
         IN  (k # 0 /\ ~GSingle(d, SingleNames[j])) =>
                /\ ret.status = "err"
                /\ ret.stat = <<>>
                /\ ret.err.kind = "InvalidData"
                /\ (d.label # <<>> /\ d.label # SingleNames[j]) =>
                      ret.err.error = [msg |-> "incorrect name",
                                       expected |-> SingleNames[j],
                                       actual |-> d.label]
    /\ ret.status = "ok" =>
         \A j \in 1..5 :
            /\ applied[SingleSteps[j]] = applied["dummy"] + j
            /\ GSingle(shape[applied[SingleSteps[j]]], SingleNames[j])

C3_Witness ==
    /\ pc = "done"
    /\ ret.status = "err"
    /\ ret.err.error = [msg |-> "incorrect name", expected |-> S_btime,
                        actual |-> S_softirq]

\* C4: when a mandatory read finds the stream exhausted from_reader returns
\* UnexpectedEof and no record; a returned record has all seven fields set
\* from the input, and an error carries no record.
C4_EofOrCompleteRecord ==
    /\ (eofAt \ {"cpus"}) # {} =>
          /\ ret.status = "err"
          /\ ret.err.kind = "UnexpectedEof"
          /\ ret.stat = <<>>
    /\ pc = "done" => ret.status \in {"ok", "err"}
    /\ ret.status = "err" => ret.stat = <<>>
    /\ ret.status = "ok" =>
          /\ eofAt \subseteq {"cpus"}
          /\ ret.stat[1].cpu_totals = Expected(shape[1])
          /\ Len(ret.stat[1].cpus) = applied["dummy"] - 2
          /\ \A i \in 1..Len(ret.stat[1].cpus) :
                ret.stat[1].cpus[i] = Expected(shape[i + 1])
          /\ ret.stat[1].context_switches = shape[applied["ctxt"]].nums[1]
          /\ ret.stat[1].boot_time = shape[applied["btime"]].nums[1]
          /\ ret.stat[1].processes = shape[applied["processes"]].nums[1]
          /\ ret.stat[1].procs_running = shape[applied["procs_running"]].nums[1]
          /\ ret.stat[1].procs_blocked = shape[applied["procs_blocked"]].nums[1]

C4_Witness ==
    /\ pc = "done"
    /\ "procs_blocked" \in eofAt
    /\ applied["procs_running"] # 0
    /\ ret.status = "err"
    /\ ret.err.kind = "UnexpectedEof"

\* C7 as stated: a first line whose label is anything but exactly `cpu`
\* makes from_reader return an error and no record.
C7_Original ==
    (pc = "done" /\ applied["totals"] = 1 /\ shape[1].label # S_cpu) =>
        (ret.status = "err" /\ ret.stat = <<>>)

\* C7 amended: a first line whose first token does not start with `cpu`
\* (or that has no token) makes from_reader return a format error and no
\* record; a cpu-prefixed label such as cpu0 followed by at least seven
\* integers is accepted and fills cpu_totals.
C7_FirstLineLabel ==
    /\ (applied["totals"] = 1 /\ ~starts_with(shape[1].label, S_cpu)) =>
          /\ ret.status = "err"
          /\ ret.stat = <<>>
          /\ ret.err.kind = "InvalidData"
          /\ ret.err.error.msg =
                IF shape[1].label = <<>> THEN "first token" ELSE "starts with cpu<x>"
    /\ (applied["totals"] = 1 /\ CpuShaped(shape[1])) =>
          cpu_totals = Some(Expected(shape[1]))
    /\ ret.status = "ok" =>
          /\ starts_with(shape[1].label, S_cpu)
          /\ ret.stat[1].cpu_totals = Expected(shape[1])

C7_Witness ==
    /\ pc = "done"
    /\ applied["totals"] = 1
    /\ shape[1].label = S_cpu0
    /\ ret.status = "ok"
    /\ ret.stat[1].cpu_totals = Expected(shape[1])

\* C8 as stated: a cpu-labelled line with fewer than seven integers, be it
\* the aggregate line or a line of the per-CPU block, makes from_reader
\* return the error naming the first missing field.
C8_Original ==
    (pc = "done" /\ ioFailed = {}) =>
        \A k \in {applied["totals"], loopFail} \ {0} :
            ShortCpu(shape[k]) =>
                /\ ret.status = "err"
                /\ ret.err.error.msg = MandatoryNames[Len(shape[k].nums) + 1]

\* C8 amended: such a line as the aggregate line makes from_reader return
\* the error naming the first missing field and no record; in the per-CPU
\* block it ends the loop without error and is consumed as the ignored
\* line, and no field-naming error is ever returned for it.
C8_ShortCpuLine ==
    /\ (applied["totals"] = 1 /\ ShortCpu(shape[1])) =>
          /\ ret.status = "err"
          /\ ret.stat = <<>>
          /\ ret.err.kind = "InvalidData"
          /\ ret.err.error = Error(MandatoryNames[Len(shape[1].nums) + 1])
    /\ (loopFail # 0 /\ ShortCpu(shape[loopFail])) =>
          /\ pc # "cpus"
          /\ applied["dummy"] \in {0, loopFail}
          /\ pc = "dummy" => ret.status = "running"
    /\ (\E i \in 1..7 : ret.err.error.msg = MandatoryNames[i]) =>
          (applied["totals"] = 1 /\ applied["cpus"] = 0 /\ ShortCpu(shape[1]))

C8_Witness ==
    /\ pc = "done"
    /\ loopFail # 0
    /\ ShortCpu(shape[loopFail])
    /\ applied["dummy"] = loopFail
    /\ ret.status = "ok"

\* C9: once a read of the stream has failed with an I/O error, whichever
\* line was being read, from_reader returns an error and never continues
\* to a successful record.
C9_IoErrorSurfaces ==
    (pc = "done" /\ ioFailed # {}) => (ret.status = "err" /\ ret.stat = <<>>)


\* C5: from_str succeeds on every line made of a cpu-prefixed label and
\* seven or more unsigned integers; the first seven fill the mandatory
\* fields in order, the 8th to 10th fill steal, guest, guest_nice as
\* Some(value), missing ones are None, and what follows the 10th is ignored.
C5_FromStrFields ==
    (pc = "done" /\ Len(shape) = 1 /\ CpuShaped(shape[1])) =>
        parsed = Ok(Expected(shape[1]))

C5_Witness ==
    /\ pc = "done"
    /\ Len(shape) = 1
    /\ Len(shape[1].nums) = 11
    /\ shape[1].nums[11] # 0
    /\ parsed.ok
    /\ parsed.val[1].steal = Some(0)
    /\ parsed.val[1].guest_nice = Some(U64Max)

\* C10: in every StatCpu from_str returns, guest is Some only if steal is,
\* and guest_nice is Some only if guest is.
C10_OptionalPrefixClosed ==
    (pc = "done" /\ parsed.ok) =>
        /\ parsed.val[1].guest # None => parsed.val[1].steal # None
        /\ parsed.val[1].guest_nice # None => parsed.val[1].guest # None

C10_Witness ==
    /\ pc = "done"
    /\ Len(shape) = 1
    /\ Len(shape[1].nums) = 8
    /\ shape[1].tail = <<SP, "x", SP, "5">>
    /\ parsed.ok
    /\ parsed.val[1].steal # None
    /\ parsed.val[1].guest = None
    /\ parsed.val[1].guest_nice = None

\* The sum of the ten counters, absent optional fields counted as 0.
ExactSum(c) ==
    c.user + c.nice + c.system + c.idle + c.iowait + c.irq + c.softirq
    + (IF c.steal = None THEN 0 ELSE c.steal[1])
    + (IF c.guest = None THEN 0 ELSE c.guest[1])
    + (IF c.guest_nice = None THEN 0 ELSE c.guest_nice[1])

\* C6: total() returns the exact sum of the ten counters when it fits the
\* counter width, and panics (never a wrapped or saturated value) when it
\* does not.
C6_TotalExactOrPanic ==
    pc = "done" =>
        IF ExactSum(self) <= U64Max
        THEN sum = Some(ExactSum(self))
        ELSE sum = None

C6_Witness ==
    /\ pc = "done"
    /\ ExactSum(self) > U64Max
    /\ self.steal = None
    /\ self.guest_nice = Some(U64Max)
    /\ sum = None

====
